---- MODULE Spec2Model ----
(***************************************************************************)
(* The agent messaging layer of ABCE (src/abce/messenger.py): the mailbox  *)
(* of every agent (_msgs, inbox, _out), the clearing dispatcher            *)
(* (_do_message_clearing), the delivery passes (_post_messages,            *)
(* _post_messages_multiprocessing) and the lost-message audit              *)
(* (_check_for_lost_messages).                                             *)
(*                                                                         *)
(* An uncaught Python exception ends the simulation run: the variable      *)
(* raised records it and no operation is taken afterwards.  The state in   *)
(* which the run stopped keeps whatever the failing method had already     *)
(* done.                                                                   *)
(***************************************************************************)
EXTENDS Integers, Sequences, FiniteSets, Bags, TLC

----------------------------------------------------------------------------
(* Bounds of the model. *)

\* sends (send, _send and the offers and contracts that use it) per run
MaxSends == 3
\* rounds the scheduler advances through
MaxRound == 1
\* sends per run where offers, quotes and transfers are sent besides messages
MaxMarketSends == 2

----------------------------------------------------------------------------
(* Agent identities: the (group, id) pair, self.name. *)

Firm0 == <<"firm", 0>>
Firm1 == <<"firm", 1>>
HH0 == <<"hh", 0>>
NoId == <<"", 0>>

\* the registry handed to _post_messages: the agents of the simulation
Agents == {Firm0, HH0}
\* identities a message can be addressed to; Firm1 is in no registry
Receivers == Agents \cup {Firm1}

Goods == {"BRD", "MLK"}
Money == "money"
Ids == {10, 11}

\* the kind codes _do_message_clearing interprets itself
Reserved == {"!b", "!s", "_p", "_r", "_g", "_q", "!o", "_ac", "_dp", "!d"}
UserTopics == {"m", "quote_sell"}
Contents == {"hello", "bye"}

----------------------------------------------------------------------------
(* Dictionaries: functions with a finite domain. *)

EmptyMap == [k \in {} |-> 0]
Put(m, k, v) == [j \in DOMAIN m \cup {k} |-> IF j = k THEN v ELSE m[j]]
Del(m, k) == [j \in DOMAIN m \ {k} |-> m[j]]

Range(s) == {s[i] : i \in DOMAIN s}
SeqToBag(s) == [e \in Range(s) |-> Cardinality({i \in DOMAIN s : s[i] = e})]
\* every order random.shuffle can leave the list in
Perms(s) == {[i \in 1..Len(s) |-> s[p[i]]] : p \in Permutations(1..Len(s))}

----------------------------------------------------------------------------
(* Payloads.  Every payload is a record of one shape; cls names the Python *)
(* class of the object and decides which attributes it has.                *)

Blank ==
    [cls |-> "", sender |-> NoId, receiver |-> NoId, topic |-> "",
     content |-> "", good |-> "", id |-> 0, pay_group |-> "", pay_id |-> 0,
     quantity |-> 0, price |-> 0, disc |-> "", made |-> 0,
     delivered |-> <<>>, paid |-> <<>>]

\* sender and receiver exchanged
Message_swapped(sender, receiver, topic, content) ==
    [Blank EXCEPT !.cls = "Message", !.sender = receiver, !.receiver = sender,
                  !.topic = topic, !.content = content]

\* class Message: sender, receiver, topic, content and nothing else (__slots__)
Message(sender, receiver, topic, content) ==
    [Blank EXCEPT !.cls = "Message", !.sender = sender, !.receiver = receiver,
                  !.topic = topic, !.content = content]

\* the objects the trade and contract code hands to _send
Offer(sender, good, id, made) ==
    [Blank EXCEPT !.cls = "Offer", !.sender = sender, !.good = good,
                  !.id = id, !.made = made]
OfferRef(good, id) ==
    [Blank EXCEPT !.cls = "OfferRef", !.good = good, !.id = id]
Transfer(good, quantity) ==
    [Blank EXCEPT !.cls = "tuple", !.good = good, !.quantity = quantity]
Quote(sender, good, id) ==
    [Blank EXCEPT !.cls = "Quote", !.sender = sender, !.good = good, !.id = id]
Contract(sender, payer, good, id) ==
    [Blank EXCEPT !.cls = "Contract", !.sender = sender, !.good = good,
                  !.id = id, !.pay_group = payer[1], !.pay_id = payer[2]]
Delivery(payer, good, id, quantity, price) ==
    [Blank EXCEPT !.cls = "Contract", !.good = good, !.id = id,
                  !.pay_group = payer[1], !.pay_id = payer[2],
                  !.quantity = quantity, !.price = price]
Cancel(disc, good, id) ==
    [Blank EXCEPT !.cls = "tuple", !.disc = disc, !.good = good, !.id = id]

\* msg.good, msg.id, msg.pay_group: a Message has none of them
HasAttr(msg) == msg.cls # "Message"

\* Message.__getitem__: msg[0] is content[0], the first character of a string
FirstChar(content) ==
    CASE content = "hello" -> "h"
      [] content = "bye" -> "b"
      [] OTHER -> ""
\* msg[0] of a cancel: the discriminator of the tuple, or content[0]
Item0(msg) == IF msg.cls = "Message" THEN FirstChar(msg.content) ELSE msg.disc

----------------------------------------------------------------------------
(* State. *)

VARIABLES
    _msgs,                  \* agent -> topic -> list of Message
    inbox,                  \* agent -> list of <<typ, msg>>
    _out,                   \* agent -> the outbox: a list, or partition -> list
    _open_offers_buy,       \* agent -> good -> offer id -> offer
    _open_offers_sell,      \* agent -> good -> offer id -> offer
    _quotes,                \* agent -> quote id -> quote
    _contract_offers,       \* agent -> good -> list of contracts
    _contract_offers_made,  \* agent -> contract id -> contract
    _contracts_pay,         \* agent -> good -> contract id -> contract
    _contracts_deliver,     \* agent -> good -> contract id -> contract
    _inventory,             \* agent -> good or money -> amount
    given_offers,           \* agent -> offer id -> offer the agent made
    round,                  \* the round counter of the scheduler
    multiprocessing,        \* whether _send is _send_multiprocessing
    _processes,             \* the worker count N
    hashOf,                 \* hash(receiver) of this run
    _check_every_round_for_lost_messages,   \* the audit flag
    ret,                    \* what the last operation returned
    lastOp,                 \* the last operation: its name, agent and topic
    raised,                 \* the exception that ended the run, if any
    sends,                  \* sends made so far
    contracts,              \* the ids of the contracts offered so far
    sent                    \* history: agent -> topic -> bag of envelopes
                            \* send addressed to it and no retrieval returned

market == <<_open_offers_buy, _open_offers_sell, _quotes, _contract_offers,
            _contract_offers_made, _contracts_pay, _contracts_deliver,
            _inventory, given_offers>>
config == <<multiprocessing, _processes, hashOf,
            _check_every_round_for_lost_messages>>
vars == <<_msgs, inbox, _out, market, round, config, ret, lastOp, raised,
          sends, contracts, sent>>

\* self._out = []          and          self._out = defaultdict(list)
OutList(l) == [isdict |-> FALSE, list |-> l, dict |-> EmptyMap]
OutDict(d) == [isdict |-> TRUE, list |-> <<>>, dict |-> d]

NoError == [exc |-> "none", group |-> "", id |-> 0, check |-> ""]
Error(exc) == [NoError EXCEPT !.exc = exc]
NoReturn == [list |-> <<>>, dict |-> EmptyMap, out |-> OutList(<<>>)]
Op(name, a, topic) == [op |-> name, agent |-> a, topic |-> topic]

----------------------------------------------------------------------------
(* _do_message_clearing.  The state of one agent as the dispatcher sees    *)
(* it, and the effect of one inbox entry on it.  err is the exception the  *)
(* entry raised; what the entry did before raising stays done.             *)

AgentState(a) ==
    [msgs |-> _msgs[a], buy |-> _open_offers_buy[a],
     sell |-> _open_offers_sell[a], quotes |-> _quotes[a],
     coffers |-> _contract_offers[a], made |-> _contract_offers_made[a],
     pay |-> _contracts_pay[a], deliver |-> _contracts_deliver[a],
     inv |-> _inventory[a], given |-> given_offers[a], err |-> "none"]

Raise(S, exc) == [S EXCEPT !.err = exc]

\* self._receive_accept(msg) and self._receive_reject(msg): the referenced
\* offer is resolved and leaves the open-offer tables
ResolveOffer(S, msg) ==
    IF msg.cls # "OfferRef" THEN Raise(S, "KeyError")
    ELSE [S EXCEPT !.buy[msg.good] = Del(@, msg.id),
                   !.sell[msg.good] = Del(@, msg.id)]
_receive_accept(S, msg) == ResolveOffer(S, msg)
_receive_reject(S, msg) == ResolveOffer(S, msg)

\* the id left out of the comparison
IsPayer_group(c, self) == c.pay_group = self[1]

\* contract.pay_group == self.group and contract.pay_id == self.id
IsPayer(c, self) == c.pay_group = self[1] /\ c.pay_id = self[2]

\* elif typ == '_ac'
AcceptContract(S, self, msg) ==
    IF ~HasAttr(msg) THEN Raise(S, "AttributeError")
    ELSE IF msg.id \notin DOMAIN S.made THEN Raise(S, "KeyError")
    ELSE LET contract == S.made[msg.id]
             S1 == [S EXCEPT !.made = Del(@, msg.id)]
         IN  IF IsPayer(contract, self)
             THEN [S1 EXCEPT !.pay[contract.good] = Put(@, contract.id, contract)]
             ELSE [S1 EXCEPT !.deliver[contract.good] = Put(@, contract.id, contract)]

\* the money credited with the quantity alone
DeliverOrPay_noprice(S, self, rnd, msg) ==
    IF ~HasAttr(msg) THEN Raise(S, "AttributeError")
    ELSE IF IsPayer(msg, self)
    THEN LET S1 == [S EXCEPT !.inv[msg.good] = @ + msg.quantity]
         IN  IF msg.id \notin DOMAIN S1.pay[msg.good] THEN Raise(S1, "KeyError")
             ELSE [S1 EXCEPT !.pay[msg.good][msg.id].delivered = Append(@, rnd)]
    ELSE LET S1 == [S EXCEPT !.inv[Money] = @ + msg.quantity]
         IN  IF msg.id \notin DOMAIN S1.deliver[msg.good] THEN Raise(S1, "KeyError")
             ELSE [S1 EXCEPT !.deliver[msg.good][msg.id].paid = Append(@, rnd)]

\* elif typ == '_dp'
DeliverOrPay(S, self, rnd, msg) ==
    IF ~HasAttr(msg) THEN Raise(S, "AttributeError")
    ELSE IF IsPayer(msg, self)
    THEN LET S1 == [S EXCEPT !.inv[msg.good] = @ + msg.quantity]
         IN  IF msg.id \notin DOMAIN S1.pay[msg.good] THEN Raise(S1, "KeyError")
             ELSE [S1 EXCEPT !.pay[msg.good][msg.id].delivered = Append(@, rnd)]
    ELSE LET S1 == [S EXCEPT !.inv[Money] = @ + msg.quantity * msg.price]
         IN  IF msg.id \notin DOMAIN S1.deliver[msg.good] THEN Raise(S1, "KeyError")
             ELSE [S1 EXCEPT !.deliver[msg.good][msg.id].paid = Append(@, rnd)]

\* the whole entry of the good deleted: del self._contracts_pay[msg[1]]
CancelContract_good(S, msg) ==
    IF Item0(msg) = "r"
    THEN IF msg.cls = "tuple" /\ msg.id \in DOMAIN S.pay[msg.good]
         THEN [S EXCEPT !.pay[msg.good] = EmptyMap]
         ELSE Raise(S, "KeyError")
    ELSE IF Item0(msg) = "d"
    THEN IF msg.cls = "tuple" /\ msg.id \in DOMAIN S.deliver[msg.good]
         THEN [S EXCEPT !.deliver[msg.good] = EmptyMap]
         ELSE Raise(S, "KeyError")
    ELSE S

\* elif typ == '!d': two ifs on msg[0]; msg[1] and msg[2] of a Message are
\* characters of its content, which name no good
CancelContract(S, msg) ==
    IF Item0(msg) = "r"
    THEN IF msg.cls = "tuple" /\ msg.id \in DOMAIN S.pay[msg.good]
         THEN [S EXCEPT !.pay[msg.good] = Del(@, msg.id)]
         ELSE Raise(S, "KeyError")
    ELSE IF Item0(msg) = "d"
    THEN IF msg.cls = "tuple" /\ msg.id \in DOMAIN S.deliver[msg.good]
         THEN [S EXCEPT !.deliver[msg.good] = Del(@, msg.id)]
         ELSE Raise(S, "KeyError")
    ELSE S

\* the queue assigned instead of appended to: self._msgs[typ] = [msg]
FileMessage_assign(S, typ, msg) ==
    [S EXCEPT !.msgs = Put(@, typ, <<msg>>)]

\* else: self._msgs.setdefault(typ, []).append(msg)
FileMessage(S, typ, msg) ==
    [S EXCEPT !.msgs = Put(@, typ, Append(IF typ \in DOMAIN @ THEN @[typ] ELSE <<>>, msg))]

\* if typ == '!b': self._open_offers_buy[msg.good][msg.id] = msg
OpenOfferBuy(S, msg) ==
    IF HasAttr(msg) THEN [S EXCEPT !.buy[msg.good] = Put(@, msg.id, msg)]
    ELSE Raise(S, "AttributeError")

\* the branch of '_q' left out
Dispatch_noquote(S, self, rnd, typ, msg) ==
    CASE typ = "!b" -> OpenOfferBuy(S, msg)
      [] typ = "!s" ->
           IF HasAttr(msg) THEN [S EXCEPT !.sell[msg.good] = Put(@, msg.id, msg)]
           ELSE Raise(S, "AttributeError")
      [] typ = "_p" -> _receive_accept(S, msg)
      [] typ = "_r" -> _receive_reject(S, msg)
      [] typ = "_g" ->
           IF msg.cls = "tuple" THEN [S EXCEPT !.inv[msg.good] = @ + msg.quantity]
           ELSE Raise(S, "TypeError")
      [] typ = "!o" ->
           IF HasAttr(msg) THEN [S EXCEPT !.coffers[msg.good] = Append(@, msg)]
           ELSE Raise(S, "AttributeError")
      [] typ = "_ac" -> AcceptContract(S, self, msg)
      [] typ = "_dp" -> DeliverOrPay(S, self, rnd, msg)
      [] typ = "!d" -> CancelContract(S, msg)
      [] OTHER -> FileMessage(S, typ, msg)

\* the body of the loop for one (typ, msg)
Dispatch(S, self, rnd, typ, msg) ==
    CASE typ = "!b" -> OpenOfferBuy(S, msg)
      [] typ = "!s" ->
           IF HasAttr(msg) THEN [S EXCEPT !.sell[msg.good] = Put(@, msg.id, msg)]
           ELSE Raise(S, "AttributeError")
      [] typ = "_p" -> _receive_accept(S, msg)
      [] typ = "_r" -> _receive_reject(S, msg)
      [] typ = "_g" ->
           IF msg.cls = "tuple" THEN [S EXCEPT !.inv[msg.good] = @ + msg.quantity]
           ELSE Raise(S, "TypeError")
      [] typ = "_q" ->
           IF HasAttr(msg) THEN [S EXCEPT !.quotes = Put(@, msg.id, msg)]
           ELSE Raise(S, "AttributeError")
      [] typ = "!o" ->
           IF HasAttr(msg) THEN [S EXCEPT !.coffers[msg.good] = Append(@, msg)]
           ELSE Raise(S, "AttributeError")
      [] typ = "_ac" -> AcceptContract(S, self, msg)
      [] typ = "_dp" -> DeliverOrPay(S, self, rnd, msg)
      [] typ = "!d" -> CancelContract(S, msg)
      [] OTHER -> FileMessage(S, typ, msg)

\* the states the loop goes through on the entries box[i..]: the state
\* before each entry it reaches and the state it ends in (the last one,
\* with err set when an entry raised and the loop was left)
RECURSIVE ClearingStates(_, _, _, _, _)
ClearingStates(S, self, rnd, box, i) ==
    IF i > Len(box) \/ S.err # "none" THEN <<S>>
    ELSE <<S>> \o ClearingStates(Dispatch(S, self, rnd, box[i][1], box[i][2]),
                                 self, rnd, box, i + 1)

Last(s) == s[Len(s)]
Cleared(a) == Last(ClearingStates(AgentState(a), a, round, inbox[a], 1))

----------------------------------------------------------------------------
(* Sending. *)

Item(receiver, typ, msg) == <<receiver, <<typ, msg>>>>

\* the entry put at the head: self._out.insert(0, ...)
_send_insert(o, receiver, typ, msg) ==
    [out |-> OutList(<<Item(receiver, typ, msg)>> \o o.list), err |-> "none"]

\* self._out.append((receiver, (typ, msg)))
_send(o, receiver, typ, msg) ==
    IF o.isdict THEN [out |-> o, err |-> "AttributeError"]
    ELSE [out |-> OutList(Append(o.list, Item(receiver, typ, msg))),
          err |-> "none"]

\* the bucket taken in turn instead of by the receiver
Partition_turn(receiver) == (hashOf[receiver] + sends) % _processes

\* the bucket assigned instead of appended to:
\* self._out[hash(receiver) % self._processes] = [(receiver, (typ, msg))]
_send_multiprocessing_assign(o, receiver, typ, msg) ==
    LET k == (hashOf[receiver] % _processes)
    IN  IF o.isdict
        THEN [out |-> OutDict(Put(o.dict, k, <<Item(receiver, typ, msg)>>)),
              err |-> "none"]
        ELSE [out |-> o,
              err |-> IF k < Len(o.list) THEN "AttributeError" ELSE "IndexError"]

\* self._out[hash(receiver) % self._processes].append((receiver, (typ, msg)))
\* a defaultdict makes the bucket; a list has no such index or, where it
\* has, holds a tuple there, which has no append
Partition(receiver) == hashOf[receiver] % _processes
_send_multiprocessing(o, receiver, typ, msg) ==
    LET k == Partition(receiver)
    IN  IF o.isdict
        THEN [out |-> OutDict(Put(o.dict, k,
                        Append(IF k \in DOMAIN o.dict THEN o.dict[k] ELSE <<>>,
                               Item(receiver, typ, msg)))),
              err |-> "none"]
        ELSE [out |-> o,
              err |-> IF k < Len(o.list) THEN "AttributeError" ELSE "IndexError"]

\* self._send(receiver, typ, msg), with the method the mode has bound to it
Emit(a, receiver, typ, msg) ==
    LET r == IF multiprocessing
             THEN _send_multiprocessing(_out[a], receiver, typ, msg)
             ELSE _send(_out[a], receiver, typ, msg)
    IN  /\ _out' = [_out EXCEPT ![a] = r.out]
        /\ raised' = Error(r.err)
        /\ sent' = IF r.err = "none" /\ receiver \in Agents /\ msg.cls = "Message"
                   THEN [sent EXCEPT ![receiver][typ] = @ (+) SetToBag({msg})]
                   ELSE sent
        /\ sends' = sends + 1

\* Messenger.send
send(a, receiver, topic, content) ==
    /\ raised.exc = "none"
    /\ sends < MaxSends
    /\ Emit(a, receiver, topic, Message(a, receiver, topic, content))
    /\ lastOp' = Op("send", a, topic)
    /\ ret' = NoReturn
    /\ UNCHANGED <<_msgs, inbox, market, round, config, contracts>>

\* a call of self._send(receiver, typ, msg) by the trade or contract code
SendNative(a, receiver, typ, msg) ==
    /\ raised.exc = "none"
    /\ sends < MaxSends
    /\ Emit(a, receiver, typ, msg)
    /\ lastOp' = Op("_send", a, typ)
    /\ ret' = NoReturn
    /\ UNCHANGED <<_msgs, inbox, market, round, config, contracts>>

----------------------------------------------------------------------------
(* Delivery. *)

\* the envelope put at the head of the inbox: inbox.insert(0, envelope)
RECURSIVE Deliver_front(_, _, _)
Deliver_front(boxes, items, i) ==
    IF i > Len(items) THEN [inbox |-> boxes, err |-> "none"]
    ELSE IF items[i][1] \notin DOMAIN boxes THEN [inbox |-> boxes, err |-> "KeyError"]
    ELSE Deliver_front([boxes EXCEPT ![items[i][1]] = <<items[i][2]>> \o @],
                       items, i + 1)

\* the inbox replaced by the envelope: agents[name].inbox = [envelope]
RECURSIVE Deliver_assign(_, _, _)
Deliver_assign(boxes, items, i) ==
    IF i > Len(items) THEN [inbox |-> boxes, err |-> "none"]
    ELSE IF items[i][1] \notin DOMAIN boxes THEN [inbox |-> boxes, err |-> "KeyError"]
    ELSE Deliver_assign([boxes EXCEPT ![items[i][1]] = <<items[i][2]>>],
                        items, i + 1)

\* for name, envelope in self._out: agents[name].inbox.append(envelope)
\* agents[name] raises KeyError for a name the registry does not hold
RECURSIVE Deliver(_, _, _)
Deliver(boxes, items, i) ==
    IF i > Len(items) THEN [inbox |-> boxes, err |-> "none"]
    ELSE IF items[i][1] \notin DOMAIN boxes THEN [inbox |-> boxes, err |-> "KeyError"]
    ELSE Deliver([boxes EXCEPT ![items[i][1]] = Append(@, items[i][2])],
                 items, i + 1)

\* Messenger._post_messages: the loop, then self._out.clear()
PostResult(boxes, o) ==
    LET d == Deliver(boxes, o.list, 1)
    IN  [inbox |-> d.inbox, err |-> d.err,
         out |-> IF d.err = "none" THEN OutList(<<>>) ELSE o]

_post_messages(a) ==
    /\ raised.exc = "none"
    /\ ~multiprocessing
    /\ LET r == PostResult(inbox, _out[a])
       IN  /\ inbox' = r.inbox
           /\ _out' = [_out EXCEPT ![a] = r.out]
           /\ raised' = Error(r.err)
    /\ lastOp' = Op("_post_messages", a, "")
    /\ ret' = NoReturn
    /\ UNCHANGED <<_msgs, market, round, config, sends, contracts, sent>>

\* Messenger._post_messages_multiprocessing: out = self._out;
\* self._out = defaultdict(list); return out
_post_messages_multiprocessing(a) ==
    /\ raised.exc = "none"
    /\ multiprocessing
    /\ ret' = [NoReturn EXCEPT !.out = _out[a]]
    /\ _out' = [_out EXCEPT ![a] = OutDict(EmptyMap)]
    /\ lastOp' = Op("_post_messages_multiprocessing", a, "")
    /\ UNCHANGED <<_msgs, inbox, market, round, config, raised, sends,
                   contracts, sent>>

----------------------------------------------------------------------------
(* Clearing. *)

\* Messenger._do_message_clearing: the loop, then self.inbox.clear()
_do_message_clearing(a) ==
    /\ raised.exc = "none"
    /\ LET F == Cleared(a)
       IN  /\ _msgs' = [_msgs EXCEPT ![a] = F.msgs]
           /\ _open_offers_buy' = [_open_offers_buy EXCEPT ![a] = F.buy]
           /\ _open_offers_sell' = [_open_offers_sell EXCEPT ![a] = F.sell]
           /\ _quotes' = [_quotes EXCEPT ![a] = F.quotes]
           /\ _contract_offers' = [_contract_offers EXCEPT ![a] = F.coffers]
           /\ _contract_offers_made' = [_contract_offers_made EXCEPT ![a] = F.made]
           /\ _contracts_pay' = [_contracts_pay EXCEPT ![a] = F.pay]
           /\ _contracts_deliver' = [_contracts_deliver EXCEPT ![a] = F.deliver]
           /\ _inventory' = [_inventory EXCEPT ![a] = F.inv]
           /\ inbox' = [inbox EXCEPT ![a] = IF F.err = "none" THEN <<>> ELSE @]
           /\ raised' = Error(F.err)
    /\ lastOp' = Op("_do_message_clearing", a, "")
    /\ ret' = NoReturn
    /\ UNCHANGED <<_out, given_offers, round, config, sends, contracts, sent>>

----------------------------------------------------------------------------
(* Retrieval. *)

\* without the except KeyError
get_messages_nocatch(q, topic) ==
    IF topic \in DOMAIN q
    THEN {[list |-> l, msgs |-> Del(q, topic), err |-> "none"] : l \in Perms(q[topic])}
    ELSE {[list |-> <<>>, msgs |-> q, err |-> "KeyError"]}

\* the queue returned without being popped: return self._msgs[topic]
get_messages_nopop(q, topic) ==
    IF topic \in DOMAIN q
    THEN {[list |-> l, msgs |-> Del(q, topic), err |-> "none"] : l \in Perms(q[topic])}
    ELSE {[list |-> <<>>, msgs |-> Put(q, topic, <<>>), err |-> "none"]}

\* Messenger.get_messages: what it can return and the _msgs it leaves.
\* shuffle(self._msgs[topic]); a KeyError makes self._msgs[topic] = [];
\* return self._msgs.pop(topic)
get_messages(q, topic) ==
    IF topic \in DOMAIN q
    THEN {[list |-> l, msgs |-> Del(q, topic), err |-> "none"] : l \in Perms(q[topic])}
    ELSE {[list |-> <<>>, msgs |-> Del(Put(q, topic, <<>>), topic), err |-> "none"]}

GetMessages(a, topic) ==
    /\ raised.exc = "none"
    /\ \E r \in get_messages(_msgs[a], topic) :
          /\ ret' = [NoReturn EXCEPT !.list = r.list]
          /\ _msgs' = [_msgs EXCEPT ![a] = r.msgs]
          /\ raised' = Error(r.err)
          /\ sent' = [sent EXCEPT ![a][topic] = @ (-) SeqToBag(r.list)]
    /\ lastOp' = Op("get_messages", a, topic)
    /\ UNCHANGED <<inbox, _out, market, round, config, sends, contracts>>

\* without self._msgs.clear()
get_messages_all_noclear(q) ==
    {[dict |-> d, msgs |-> q] :
        d \in {f \in [DOMAIN q -> UNION {Perms(q[t]) : t \in DOMAIN q}] :
                  \A t \in DOMAIN q : f[t] \in Perms(q[t])}}

\* Messenger.get_messages_all: every topic shuffled into ret, then
\* self._msgs.clear()
get_messages_all(q) ==
    {[dict |-> d, msgs |-> EmptyMap] :
        d \in {f \in [DOMAIN q -> UNION {Perms(q[t]) : t \in DOMAIN q}] :
                  \A t \in DOMAIN q : f[t] \in Perms(q[t])}}

GetMessagesAll(a) ==
    /\ raised.exc = "none"
    /\ \E r \in get_messages_all(_msgs[a]) :
          /\ ret' = [NoReturn EXCEPT !.dict = r.dict]
          /\ _msgs' = [_msgs EXCEPT ![a] = r.msgs]
          /\ sent' = [sent EXCEPT ![a] =
                        [t \in DOMAIN @ |->
                            IF t \in DOMAIN r.dict
                            THEN @[t] (-) SeqToBag(r.dict[t]) ELSE @[t]]]
    /\ lastOp' = Op("get_messages_all", a, "")
    /\ UNCHANGED <<inbox, _out, market, round, config, raised, sends, contracts>>

----------------------------------------------------------------------------
(* The audit. *)

\* raise Exception('%s_%i: ...' % (self.group, self.id))
Fatal(self, check) ==
    [exc |-> "Exception", group |-> self[1], id |-> self[2], check |-> check]

\* an offer of the current round taken for an old one: offer.made <= self.round
_check_for_lost_messages_le(S, self, rnd) ==
    IF \E k \in DOMAIN S.given : S.given[k].made <= rnd
    THEN Fatal(self, "given_offers")
    ELSE IF \E g \in DOMAIN S.buy : DOMAIN S.buy[g] # {}
    THEN Fatal(self, "_open_offers_buy")
    ELSE IF \E g \in DOMAIN S.sell : DOMAIN S.sell[g] # {}
    THEN Fatal(self, "_open_offers_sell")
    ELSE IF \E t \in DOMAIN S.msgs : Len(S.msgs[t]) > 0
    THEN Fatal(self, "_msgs")
    ELSE NoError

\* the check of _open_offers_sell left out
_check_for_lost_messages_nosell(S, self, rnd) ==
    IF \E k \in DOMAIN S.given : S.given[k].made < rnd
    THEN Fatal(self, "given_offers")
    ELSE IF \E g \in DOMAIN S.buy : DOMAIN S.buy[g] # {}
    THEN Fatal(self, "_open_offers_buy")
    ELSE IF \E t \in DOMAIN S.msgs : Len(S.msgs[t]) > 0
    THEN Fatal(self, "_msgs")
    ELSE NoError

\* Messenger._check_for_lost_messages: the first check that fails raises
_check_for_lost_messages(S, self, rnd) ==
    IF \E k \in DOMAIN S.given : S.given[k].made < rnd
    THEN Fatal(self, "given_offers")
    ELSE IF \E g \in DOMAIN S.buy : DOMAIN S.buy[g] # {}
    THEN Fatal(self, "_open_offers_buy")
    ELSE IF \E g \in DOMAIN S.sell : DOMAIN S.sell[g] # {}
    THEN Fatal(self, "_open_offers_sell")
    ELSE IF \E t \in DOMAIN S.msgs : Len(S.msgs[t]) > 0
    THEN Fatal(self, "_msgs")
    ELSE NoError

\* the scheduler runs the audit at round end when the flag of
\* simulation_parameters['check_unchecked_msgs'] is set
CheckForLostMessages(a) ==
    /\ raised.exc = "none"
    /\ _check_every_round_for_lost_messages
    /\ raised' = _check_for_lost_messages(AgentState(a), a, round)
    /\ lastOp' = Op("_check_for_lost_messages", a, "")
    /\ ret' = NoReturn
    /\ UNCHANGED <<_msgs, inbox, _out, market, round, config, sends,
                   contracts, sent>>

----------------------------------------------------------------------------
(* What the rest of the agent does to the state the messenger reads. *)

\* the scheduler starts the next round
AdvanceRound ==
    /\ raised.exc = "none"
    /\ round < MaxRound
    /\ round' = round + 1
    /\ lastOp' = Op("round", NoId, "")
    /\ ret' = NoReturn
    /\ UNCHANGED <<_msgs, inbox, _out, market, config, raised, sends,
                   contracts, sent>>

\* the agent makes an offer: it is kept in given_offers with the round it
\* was made in
GiveOffer(a, good, id) ==
    /\ raised.exc = "none"
    /\ id \notin DOMAIN given_offers[a]
    /\ given_offers' = [given_offers EXCEPT ![a] = Put(@, id, Offer(a, good, id, round))]
    /\ lastOp' = Op("offer", a, "")
    /\ ret' = NoReturn
    /\ UNCHANGED <<_msgs, inbox, _out, _open_offers_buy, _open_offers_sell,
                   _quotes, _contract_offers, _contract_offers_made,
                   _contracts_pay, _contracts_deliver, _inventory, round,
                   config, raised, sends, contracts, sent>>

\* the agent offers a contract: it is kept in _contract_offers_made under an
\* id no other contract has, the next of the run
NextContractId == CHOOSE k \in Ids \ contracts : \A j \in Ids \ contracts : k <= j
OfferContract(a, payer, good) ==
    /\ raised.exc = "none"
    /\ Ids \ contracts # {}
    /\ _contract_offers_made' =
          [_contract_offers_made EXCEPT
              ![a] = Put(@, NextContractId, Contract(a, payer, good, NextContractId))]
    /\ contracts' = contracts \cup {NextContractId}
    /\ lastOp' = Op("contract", a, "")
    /\ ret' = NoReturn
    /\ UNCHANGED <<_msgs, inbox, _out, _open_offers_buy, _open_offers_sell,
                   _quotes, _contract_offers, _contracts_pay,
                   _contracts_deliver, _inventory, given_offers, round,
                   config, raised, sends, sent>>

----------------------------------------------------------------------------
(* Specifications. *)

AllTopics == UserTopics \cup Reserved

\* Messenger.__init__ but for the outbox, and the empty tables of the agent
\* around it
InitTables ==
    /\ _msgs = [a \in Agents |-> EmptyMap]
    /\ inbox = [a \in Agents |-> <<>>]
    /\ _open_offers_buy = [a \in Agents |-> [g \in Goods |-> EmptyMap]]
    /\ _open_offers_sell = [a \in Agents |-> [g \in Goods |-> EmptyMap]]
    /\ _quotes = [a \in Agents |-> EmptyMap]
    /\ _contract_offers = [a \in Agents |-> [g \in Goods |-> <<>>]]
    /\ _contract_offers_made = [a \in Agents |-> EmptyMap]
    /\ _contracts_pay = [a \in Agents |-> [g \in Goods |-> EmptyMap]]
    /\ _contracts_deliver = [a \in Agents |-> [g \in Goods |-> EmptyMap]]
    /\ _inventory = [a \in Agents |-> [g \in Goods \cup {Money} |-> 0]]
    /\ given_offers = [a \in Agents |-> EmptyMap]
    /\ round = 0
    /\ ret = NoReturn
    /\ lastOp = Op("__init__", NoId, "")
    /\ raised = NoError
    /\ sends = 0
    /\ contracts = {}
    /\ sent = [a \in Agents |-> [t \in AllTopics |-> EmptyBag]]

\* Messenger.__init__: the outbox is the list self._out = []
InitAgents ==
    /\ InitTables
    /\ _out = [a \in Agents |-> OutList(<<>>)]

\* direct mode, the audit on
Init ==
    /\ InitAgents
    /\ multiprocessing = FALSE
    /\ _processes = 1
    /\ hashOf = [r \in Receivers |-> 0]
    /\ _check_every_round_for_lost_messages = TRUE

\* agents exchanging messages on user topics
Next ==
    \/ \E a \in Agents, r \in Agents, t \in UserTopics :
          send(a, r, t, "hello")
    \/ \E a \in Agents : _post_messages(a)
    \/ \E a \in Agents : _do_message_clearing(a)
    \/ \E a \in Agents, t \in UserTopics : GetMessages(a, t)
    \/ \E a \in Agents : GetMessagesAll(a)

Spec == Init /\ [][Next]_vars

\* either mode and the hash values of this run; receivers outside the
\* registry can be addressed.  __init__ leaves the outbox a list in either
\* mode.  The code that binds _send to _send_multiprocessing is not part of
\* the messenger: it may have overwritten the outbox with a
\* defaultdict(list), as that method requires, or have left the list
HashValues == {-1, 0}
InitOutboxes ==
    IF multiprocessing THEN {OutList(<<>>), OutDict(EmptyMap)} ELSE {OutList(<<>>)}
InitRouter ==
    /\ InitTables
    /\ multiprocessing \in BOOLEAN
    /\ _out \in {[a \in Agents |-> o] : o \in InitOutboxes}
    /\ _processes = 2
    /\ hashOf \in [Receivers -> HashValues]
    /\ _check_every_round_for_lost_messages = TRUE

NextRouter ==
    \/ \E a \in Agents, r \in Receivers : send(a, r, "m", "hello")
    \/ \E a \in Agents : _post_messages(a)
    \/ \E a \in Agents : _post_messages_multiprocessing(a)
    \/ \E a \in Agents : _do_message_clearing(a)
    \/ \E a \in Agents : GetMessages(a, "m")

SpecRouter == InitRouter /\ [][NextRouter]_vars

\* every kind code as the topic of send, and the objects the trade code
\* sends under the kinds that need no table entry
KindEntries(a) ==
    {<<"!b", Offer(a, "BRD", 10, round)>>, <<"_g", Transfer("BRD", 1)>>,
     <<"_q", Quote(a, "BRD", 10)>>, <<"!o", Contract(a, a, "BRD", 10)>>}

NextKinds ==
    \/ \E t \in AllTopics :
          sends < MaxMarketSends /\ send(HH0, Firm0, t, "hello")
    \/ \E e \in KindEntries(HH0) :
          sends < MaxMarketSends /\ SendNative(HH0, Firm0, e[1], e[2])
    \/ _post_messages(HH0)
    \/ _do_message_clearing(Firm0)
    \/ \E t \in AllTopics : GetMessages(Firm0, t)
    \/ GetMessagesAll(Firm0)

SpecKinds == Init /\ [][NextKinds]_vars

\* Firm0 offers contracts, HH0 answers them
ContractEntries ==
    {<<"_ac", [Blank EXCEPT !.cls = "Contract", !.id = k]>> : k \in Ids \cup {99}}
    \cup {<<"!d", Cancel(d, "BRD", k)>> : d \in {"r", "d"}, k \in Ids}

NextContract ==
    \/ \E payer \in Receivers : OfferContract(Firm0, payer, "BRD")
    \/ \E e \in ContractEntries : SendNative(HH0, Firm0, e[1], e[2])
    \/ _post_messages(HH0)
    \/ _do_message_clearing(Firm0)

SpecContract == Init /\ [][NextContract]_vars

\* messages between the agents, offers of HH0 to Firm0, an offer Firm0
\* made, rounds, and the audit
OfferEntries(a) ==
    {<<"!b", Offer(a, "BRD", 10, round)>>, <<"!s", Offer(a, "BRD", 11, round)>>}

\* direct mode; the audit flag is a parameter of the simulation
InitAudit ==
    /\ InitAgents
    /\ multiprocessing = FALSE
    /\ _processes = 1
    /\ hashOf = [r \in Receivers |-> 0]
    /\ _check_every_round_for_lost_messages \in BOOLEAN

NextAudit ==
    \/ \E a \in Agents : \E r \in Agents \ {a} :
          sends < MaxMarketSends /\ send(a, r, "m", "hello")
    \/ \E e \in OfferEntries(HH0) :
          sends < MaxMarketSends /\ SendNative(HH0, Firm0, e[1], e[2])
    \/ GiveOffer(Firm0, "BRD", 10)
    \/ AdvanceRound
    \/ \E a \in Agents : _post_messages(a)
    \/ \E a \in Agents : _do_message_clearing(a)
    \/ \E a \in Agents : GetMessages(a, "m")
    \/ \E a \in Agents : CheckForLostMessages(a)

SpecAudit == InitAudit /\ [][NextAudit]_vars

\* both agents write to Firm0, on either user topic and with either content
NextLetters ==
    \/ \E a \in Agents, t \in UserTopics, c \in Contents : send(a, Firm0, t, c)
    \/ \E a \in Agents : _post_messages(a)
    \/ _do_message_clearing(Firm0)
    \/ \E t \in UserTopics : GetMessages(Firm0, t)

SpecLetters == Init /\ [][NextLetters]_vars

\* HH0 sends Firm0 and itself buy-offers under one id that differ in their
\* quantity, and accepts and cancels of the contracts Firm0 offers
OrderEntries ==
    {<<"!b", [Offer(HH0, "BRD", 10, 0) EXCEPT !.quantity = q]>> : q \in {1, 2}}
    \cup {<<"_ac", [Blank EXCEPT !.cls = "Contract", !.id = 10]>>}
    \cup {<<"!d", Cancel(d, "BRD", 10)>> : d \in {"r", "d"}}

NextOrder ==
    \/ \E payer \in Agents : OfferContract(Firm0, payer, "BRD")
    \/ \E r \in Agents : \E e \in OrderEntries : SendNative(HH0, r, e[1], e[2])
    \/ _post_messages(HH0)
    \/ \E a \in Agents : _do_message_clearing(a)

SpecOrder == Init /\ [][NextOrder]_vars

\* Firm0 offers contracts, HH0 accepts them and sends the deliveries and
\* payments of contract 10, of quantity 2 at price 3, round after round
SettleEntries ==
    {<<"_ac", [Blank EXCEPT !.cls = "Contract", !.id = k]>> : k \in Ids}
    \cup {<<"_dp", Delivery(payer, "BRD", 10, 2, 3)>> : payer \in Agents}

NextSettle ==
    \/ \E payer \in Agents : OfferContract(Firm0, payer, "BRD")
    \/ \E e \in SettleEntries : SendNative(HH0, Firm0, e[1], e[2])
    \/ _post_messages(HH0)
    \/ _do_message_clearing(Firm0)
    \/ AdvanceRound

SpecSettle == Init /\ [][NextSettle]_vars

\* round after round both agents write to Firm0, each message telling the
\* round it was sent in; the audit runs where the simulation has it on
RoundContent == IF round = 0 THEN "hello" ELSE "bye"

NextRounds ==
    \/ \E a \in Agents, t \in UserTopics : send(a, Firm0, t, RoundContent)
    \/ \E a \in Agents : _post_messages(a)
    \/ _do_message_clearing(Firm0)
    \/ \E t \in UserTopics : GetMessages(Firm0, t)
    \/ AdvanceRound
    \/ CheckForLostMessages(Firm0)

SpecRounds == InitAudit /\ [][NextRounds]_vars

----------------------------------------------------------------------------
(* Claims checked under Spec. *)

\* the envelopes with topic t on their way to agent a: in some outbox, or
\* in a's inbox
InOutbox(a, t) ==
    \E s \in Agents : \E i \in DOMAIN _out[s].list :
        _out[s].list[i][1] = a /\ _out[s].list[i][2][1] = t
InInbox(a, t) == \E i \in DOMAIN inbox[a] : inbox[a][i][1] = t
OnlyEmpty(results) == \A r \in results : r.list = <<>> /\ r.err = "none"

\* C1: once every envelope sent to agent A with user topic T has been
\* delivered by its sender's _post_messages and filed by A's
\* _do_message_clearing, A.get_messages(T) returns exactly the multiset of
\* the envelopes sent to A with topic T and not retrieved before, and a
\* second get_messages(T) returns an empty list.
C1_GetReturnsWhatWasSent ==
    [][\A a \in Agents, t \in UserTopics :
          (lastOp' = Op("get_messages", a, t) /\ ~InOutbox(a, t) /\ ~InInbox(a, t))
          => /\ SeqToBag(ret'.list) = sent[a][t]
             /\ \A i \in DOMAIN ret'.list :
                   ret'.list[i].receiver = a /\ ret'.list[i].topic = t
             /\ OnlyEmpty(get_messages(_msgs'[a], t))]_vars

C1_Witness ==
    /\ lastOp.op = "get_messages"
    /\ Len(ret.list) = 3
    /\ \E i, j \in DOMAIN ret.list : i # j /\ ret.list[i] = ret.list[j]
    /\ \E i, j \in DOMAIN ret.list : ret.list[i].sender # ret.list[j].sender
    /\ \A i \in DOMAIN ret.list : ret.list[i].receiver = lastOp.agent

\* C2: get_messages_all returns, for every populated topic, the multiset
\* get_messages(topic) would have returned, and nothing else; afterwards
\* get_messages(t) returns an empty list for every topic t.
C2_GetAllIsGetPerTopic ==
    [][\A a \in Agents :
          lastOp' = Op("get_messages_all", a, "")
          => /\ DOMAIN ret'.dict = {t \in DOMAIN _msgs[a] : Len(_msgs[a][t]) > 0}
             /\ \A t \in DOMAIN ret'.dict :
                   \E r \in get_messages(_msgs[a], t) :
                       SeqToBag(ret'.dict[t]) = SeqToBag(r.list)
             /\ \A t \in AllTopics : OnlyEmpty(get_messages(_msgs'[a], t))]_vars

C2_Witness ==
    /\ lastOp.op = "get_messages_all"
    /\ DOMAIN ret.dict = UserTopics
    /\ \E t \in DOMAIN ret.dict : Len(ret.dict[t]) = 2
    /\ _msgs[lastOp.agent] = EmptyMap

\* C3: get_messages(topic) on a topic that has no queue returns an empty
\* list and raises nothing, whatever else the mailbox holds.
C3_GetOnUnknownTopic ==
    [][\A a \in Agents, t \in UserTopics :
          (lastOp' = Op("get_messages", a, t) /\ t \notin DOMAIN _msgs[a])
          => ret'.list = <<>> /\ raised'.exc = "none"]_vars

C3_Witness ==
    /\ lastOp.op = "get_messages"
    /\ ret.list = <<>>
    /\ raised.exc = "none"
    /\ sent[lastOp.agent][lastOp.topic] = EmptyBag
    /\ _msgs[lastOp.agent] # EmptyMap

\* C9: send appends exactly one entry (receiver, (topic, envelope)) to the
\* caller's own outbox, raises nothing and changes no inbox, no topic queue
\* and no market state; a topic queue never changes in send or a delivery
\* pass: it only grows, in a clearing pass, and it is only removed, by
\* get_messages and get_messages_all.
IsPrefix(s, l) == Len(s) <= Len(l) /\ \A i \in DOMAIN s : s[i] = l[i]
C9_SendOnlyQueues ==
    [][/\ \A a \in Agents, t \in UserTopics :
             lastOp' = Op("send", a, t)
             => /\ \E r \in Agents, c \in Contents :
                      _out'[a] = OutList(Append(_out[a].list,
                                                Item(r, t, Message(a, r, t, c))))
                /\ \A b \in Agents \ {a} : _out'[b] = _out[b]
                /\ raised'.exc = "none"
                /\ inbox' = inbox /\ _msgs' = _msgs /\ market' = market
       /\ _msgs' # _msgs
          => lastOp'.op \in {"_do_message_clearing", "get_messages", "get_messages_all"}
       /\ lastOp'.op = "_do_message_clearing"
          => \A a \in Agents : \A t \in DOMAIN _msgs[a] :
                t \in DOMAIN _msgs'[a] /\ IsPrefix(_msgs[a][t], _msgs'[a][t])
       /\ lastOp'.op \in {"get_messages", "get_messages_all"}
          => \A a \in Agents : \A t \in DOMAIN _msgs'[a] :
                t \in DOMAIN _msgs[a] /\ _msgs'[a][t] = _msgs[a][t]]_vars

C9_Witness ==
    /\ lastOp.op = "send"
    /\ Len(_out[lastOp.agent].list) = 1
    /\ \E a \in Agents : inbox[a] # <<>>
    /\ \E a \in Agents : _msgs[a] # EmptyMap

\* C19: after every operation each topic that is a key of _msgs has a
\* nonempty queue; get_messages on a topic without a queue leaves _msgs as
\* it was, and get_messages_all returns no topic with an empty list.
C19_NoEmptyQueue ==
    [][/\ \A a \in Agents : \A t \in DOMAIN _msgs'[a] : Len(_msgs'[a][t]) > 0
       /\ \A a \in Agents, t \in UserTopics :
             (lastOp' = Op("get_messages", a, t) /\ t \notin DOMAIN _msgs[a])
             => _msgs' = _msgs
       /\ lastOp'.op = "get_messages_all"
          => \A t \in DOMAIN ret'.dict : Len(ret'.dict[t]) > 0]_vars

\* a retrieval on a topic without a queue, beside a queue of two
C19_Witness ==
    /\ lastOp.op = "get_messages"
    /\ ret.list = <<>>
    /\ lastOp.topic \notin DOMAIN _msgs[lastOp.agent]
    /\ \E t \in DOMAIN _msgs[lastOp.agent] : Len(_msgs[lastOp.agent][t]) = 2
    /\ \E a \in Agents : inbox[a] # <<>>

----------------------------------------------------------------------------
(* Claims about the clearing dispatcher.  Trace(a) is what                 *)
(* _do_message_clearing(a) goes through from the current state: entry i of *)
(* the inbox takes Trace(a)[i] to Trace(a)[i + 1].                         *)

Trace(a) == ClearingStates(AgentState(a), a, round, inbox[a], 1)
\* the entries the loop reaches, the one that raises included
Reached(a) == 1 .. (Len(Trace(a)) - 1)
Kind(a, i) == inbox[a][i][1]
Payload(a, i) == inbox[a][i][2]
Filed(track) == UNION {{<<g, k>> : k \in DOMAIN track[g]} : g \in DOMAIN track}

\* C4: a contract-accept the clearing pass processes takes the referenced
\* contract out of _contract_offers_made and files it, unchanged, in exactly
\* one track: _contracts_pay[good][id] when (pay_group, pay_id) is the
\* agent's own (group, id), otherwise _contracts_deliver[good][id], the
\* other track staying as it was; no contract is ever in both tracks, and a
\* second accept for the same id files nothing.
C4_AcceptFilesInOneTrack ==
    \A a \in Agents :
        /\ Filed(_contracts_pay[a]) \cap Filed(_contracts_deliver[a]) = {}
        /\ \A i \in Reached(a) :
              Kind(a, i) = "_ac" /\ Payload(a, i).cls # "Message"
              => LET S == Trace(a)[i]
                     T == Trace(a)[i + 1]
                     k == Payload(a, i).id
                 IN  IF k \in DOMAIN S.made
                     THEN LET c == S.made[k]
                              mine == c.pay_group = a[1] /\ c.pay_id = a[2]
                          IN  /\ T.err = "none"
                              /\ T.made = Del(S.made, k)
                              /\ mine => /\ T.pay = [S.pay EXCEPT ![c.good] = Put(@, c.id, c)]
                                         /\ T.deliver = S.deliver
                                         /\ <<c.good, c.id>> \notin Filed(T.deliver)
                              /\ ~mine => /\ T.deliver = [S.deliver EXCEPT ![c.good] = Put(@, c.id, c)]
                                          /\ T.pay = S.pay
                                          /\ <<c.good, c.id>> \notin Filed(T.pay)
                     ELSE T.err # "none" /\ T.pay = S.pay /\ T.deliver = S.deliver

C4_Witness ==
    /\ lastOp = Op("_do_message_clearing", Firm0, "")
    /\ raised.exc = "none"
    /\ Filed(_contracts_pay[Firm0]) # {}
    /\ \E g \in Goods : \E k \in DOMAIN _contracts_deliver[Firm0][g] :
          _contracts_deliver[Firm0][g][k].pay_group = "firm"
    /\ _contract_offers_made[Firm0] = EmptyMap

\* C5: a contract-cancel the clearing pass processes for a contract filed in
\* the track it names removes that contract from that track and changes
\* nothing else: the other track and every other contract of either track
\* stay as they were.
C5_CancelRemovesOnlyTheContract ==
    \A a \in Agents : \A i \in Reached(a) :
        Kind(a, i) = "!d" /\ Payload(a, i).cls = "tuple"
        => LET S == Trace(a)[i]
               T == Trace(a)[i + 1]
               m == Payload(a, i)
           IN  /\ (m.disc = "r" /\ <<m.good, m.id>> \in Filed(S.pay))
                  => /\ T.err = "none"
                     /\ Filed(T.pay) = Filed(S.pay) \ {<<m.good, m.id>>}
                     /\ \A x \in Filed(T.pay) : T.pay[x[1]][x[2]] = S.pay[x[1]][x[2]]
                     /\ T.deliver = S.deliver
               /\ (m.disc = "d" /\ <<m.good, m.id>> \in Filed(S.deliver))
                  => /\ T.err = "none"
                     /\ Filed(T.deliver) = Filed(S.deliver) \ {<<m.good, m.id>>}
                     /\ \A x \in Filed(T.deliver) :
                           T.deliver[x[1]][x[2]] = S.deliver[x[1]][x[2]]
                     /\ T.pay = S.pay
               /\ T.made = S.made /\ T.msgs = S.msgs /\ T.inv = S.inv

C5_Witness ==
    /\ lastOp = Op("_do_message_clearing", Firm0, "")
    /\ raised.exc = "none"
    /\ contracts = Ids
    /\ _contract_offers_made[Firm0] = EmptyMap
    /\ Cardinality(Filed(_contracts_pay[Firm0]) \cup Filed(_contracts_deliver[Firm0])) = 1
    /\ sends = 3

\* C8: after _do_message_clearing the inbox of the agent is empty, whatever
\* it held, an entry whose handler raises included.
C8_InboxEmptyAfterClearing ==
    lastOp.op = "_do_message_clearing" => inbox[lastOp.agent] = <<>>

\* C10: an inbox entry whose kind code is not reserved is appended
\* unchanged to _msgs[kind] by the clearing pass and raises nothing; no
\* reserved kind code is ever a key of _msgs, and get_messages on a reserved
\* code returns an empty list.
C10_OnlyUserKindsAreFiled ==
    \A a \in Agents :
        /\ DOMAIN _msgs[a] \cap Reserved = {}
        /\ \A t \in Reserved : OnlyEmpty(get_messages(_msgs[a], t))
        /\ \A i \in Reached(a) :
              LET S == Trace(a)[i]
                  T == Trace(a)[i + 1]
                  t == Kind(a, i)
              IN  IF t \in Reserved
                  THEN T.msgs = S.msgs
                  ELSE /\ T.err = "none"
                       /\ DOMAIN T.msgs = DOMAIN S.msgs \cup {t}
                       /\ T.msgs[t] = Append(IF t \in DOMAIN S.msgs THEN S.msgs[t] ELSE <<>>,
                                             Payload(a, i))
                       /\ \A u \in DOMAIN S.msgs \ {t} : T.msgs[u] = S.msgs[u]

C10_Witness ==
    /\ lastOp = Op("_do_message_clearing", Firm0, "")
    /\ raised.exc = "none"
    /\ "m" \in DOMAIN _msgs[Firm0]
    /\ sent[Firm0]["!d"] # EmptyBag
    /\ inbox[Firm0] = <<>>

\* C18: a '!d' entry that matches no contract the agent holds (its
\* discriminator names neither track, or the track it names holds no
\* contract of that good and id) ends the clearing pass with an error; the
\* pass never goes on as if the cancel had succeeded.
C18_UnmatchedCancelIsFatal ==
    \A a \in Agents : \A i \in Reached(a) :
        Kind(a, i) = "!d"
        => LET S == Trace(a)[i]
               T == Trace(a)[i + 1]
               m == Payload(a, i)
               matched ==
                   /\ m.cls = "tuple"
                   /\ \/ Item0(m) = "r" /\ <<m.good, m.id>> \in Filed(S.pay)
                      \/ Item0(m) = "d" /\ <<m.good, m.id>> \in Filed(S.deliver)
           IN  ~matched => T.err # "none"

----------------------------------------------------------------------------
(* Claims about delivery and the audit. *)

\* C7: after a delivery pass of an agent, whether it returned or raised,
\* the agent's outbox holds no entry.
C7_OutboxEmptyAfterDelivery ==
    lastOp.op \in {"_post_messages", "_post_messages_multiprocessing"}
    => _out[lastOp.agent].list = <<>> /\ _out[lastOp.agent].dict = EmptyMap

Unretrieved(a) ==
    \/ Filed(_open_offers_buy[a]) # {}
    \/ Filed(_open_offers_sell[a]) # {}
    \/ \E t \in DOMAIN _msgs[a] : _msgs[a][t] # <<>>
Stale(a) == \E k \in DOMAIN given_offers[a] : given_offers[a][k].made < round
RaisedFor(a) == raised.exc = "Exception" /\ raised.group = a[1] /\ raised.id = a[2]

\* C6 as stated: the audit raises, naming the agent, when an open-offer
\* table or a topic queue of the agent is nonempty, and raises nothing when
\* all of them are empty.
C6_AuditRaisesIffUnretrieved ==
    \A a \in Agents :
        lastOp = Op("_check_for_lost_messages", a, "")
        => IF Unretrieved(a) THEN RaisedFor(a) ELSE raised.exc = "none"

\* C6, amended: the audit raises, naming the agent, when an open-offer
\* table or a topic queue of the agent is nonempty; when all of them are
\* empty and no offer in given_offers was made before the current round, it
\* raises nothing.
C6_AuditRaisesIffUnretrievedOrStale ==
    \A a \in Agents :
        lastOp = Op("_check_for_lost_messages", a, "")
        => /\ Unretrieved(a) => RaisedFor(a)
           /\ (~Unretrieved(a) /\ ~Stale(a)) => raised.exc = "none"

C6_Witness ==
    /\ lastOp = Op("_check_for_lost_messages", Firm0, "")
    /\ _check_every_round_for_lost_messages
    /\ RaisedFor(Firm0)
    /\ Filed(_open_offers_sell[Firm0]) # {}
    /\ Filed(_open_offers_buy[Firm0]) = {}
    /\ ~Stale(Firm0)

----------------------------------------------------------------------------
(* Claims about partitioned routing, checked under SpecRouter. *)

\* the pairs <<receiver, bucket>> of the entries of an outbox in its
\* partitioned form
Placed(o) ==
    UNION {{<<o.dict[k][i][1], k>> : i \in DOMAIN o.dict[k]} : k \in DOMAIN o.dict}
\* every partitioned outbox of the run: the ones of the agents and the one
\* the last delivery pass returned
AllPlaced == UNION {Placed(_out[a]) : a \in Agents} \cup Placed(ret.out)

\* C11: for the worker count N of the run, the partition index
\* _send_multiprocessing computes for a receiver is the same on every call:
\* two outbox entries addressed to the same receiver are in the bucket of
\* the same index, in whichever outbox or returned batch they are, and that
\* index is hash(receiver) % N, within 0 .. N - 1.
C11_SameReceiverSameBucket ==
    /\ \A x, y \in AllPlaced : x[1] = y[1] => x[2] = y[2]
    /\ \A x \in AllPlaced :
          x[2] \in 0 .. (_processes - 1) /\ x[2] = hashOf[x[1]] % _processes

C11_Witness ==
    /\ multiprocessing
    /\ raised.exc = "none"
    /\ \E r \in Receivers :
          /\ hashOf[r] < 0
          /\ \E k \in DOMAIN _out[Firm0].dict :
                \E i, j \in DOMAIN _out[Firm0].dict[k] :
                    i # j /\ _out[Firm0].dict[k][i][1] = r
                          /\ _out[Firm0].dict[k][j][1] = r
    /\ \E x, y \in AllPlaced : x[2] # y[2]

\* the bucket of index k of a partitioned outbox
Bucket(o, k) == IF k \in DOMAIN o.dict THEN o.dict[k] ELSE <<>>

\* the entries of a partitioned outbox, all buckets together
Entries(o) == UNION {{<<k, i>> : i \in DOMAIN o.dict[k]} : k \in DOMAIN o.dict}

----------------------------------------------------------------------------
(* Claims about the envelope, checked under SpecLetters. *)

\* the envelopes of kind t addressed to a among the entries of an outbox,
\* and the envelopes of kind t of an inbox
Addressed(items, a, t) ==
    LET s == SelectSeq(items, LAMBDA e : e[1] = a /\ e[2][1] = t)
    IN  [i \in DOMAIN s |-> s[i][2][2]]
Arrived(box, t) ==
    LET s == SelectSeq(box, LAMBDA e : e[1] = t)
    IN  [i \in DOMAIN s |-> s[i][2]]
Queued(a, t) == IF t \in DOMAIN _msgs[a] THEN _msgs[a][t] ELSE <<>>
\* every envelope of topic t on its way to a or waiting in a's queue
Held(a, t) ==
    SeqToBag(Addressed(_out[Firm0].list, a, t))
    (+) SeqToBag(Addressed(_out[HH0].list, a, t))
    (+) SeqToBag(Arrived(inbox[a], t))
    (+) SeqToBag(Queued(a, t))

\* C12: send(receiver, topic, content) by agent A puts into A's outbox an
\* envelope with sender A and the receiver, topic and content of the call,
\* and nothing else in it; from then on until get_messages returns it no
\* field of it changes: the envelopes on their way to an agent or in its
\* queue are the ones sent to it and not yet retrieved, as they were sent,
\* and get_messages(T) of agent B returns envelopes with receiver B and
\* topic T that are among them.
C12_EnvelopeUnchanged ==
    [][/\ \A a \in Agents, r \in Agents, t \in UserTopics, c \in Contents :
             send(a, r, t, c)
             => Last(_out'[a].list) =
                   Item(r, t, [Blank EXCEPT !.cls = "Message", !.sender = a,
                                            !.receiver = r, !.topic = t,
                                            !.content = c])
       /\ \A a \in Agents, t \in UserTopics : Held(a, t)' = sent'[a][t]
       /\ \A a \in Agents, t \in UserTopics :
             lastOp' = Op("get_messages", a, t)
             => /\ SeqToBag(ret'.list) = SeqToBag(Queued(a, t))
                /\ \A i \in DOMAIN ret'.list :
                      /\ ret'.list[i].receiver = a
                      /\ ret'.list[i].topic = t
                      /\ ret'.list[i].sender \in Agents
                      /\ ret'.list[i].content \in Contents]_vars

C12_Witness ==
    /\ lastOp = Op("get_messages", Firm0, "quote_sell")
    /\ Len(ret.list) = 2
    /\ \E i, j \in DOMAIN ret.list :
          /\ ret.list[i] = Message(HH0, Firm0, "quote_sell", "bye")
          /\ ret.list[j] = Message(Firm0, Firm0, "quote_sell", "hello")
    /\ sent[Firm0]["m"] # EmptyBag

----------------------------------------------------------------------------
(* Claims about the order of arrival, checked under SpecOrder. *)

\* the entries of the inbox of a, of kind typ, that name the id k
Naming(a, typ, k) ==
    {i \in DOMAIN inbox[a] : Kind(a, i) = typ /\ Payload(a, i).id = k}
Latest(idx) == CHOOSE i \in idx : \A j \in idx : j <= i
Earliest(idx) == CHOOSE i \in idx : \A j \in idx : i <= j

\* C13: a delivery pass appends the entries of the sender's outbox to the
\* inbox of each receiver in the order they were sent, behind what the
\* inbox already held; the clearing pass applies the entries of the inbox
\* in that order: of several buy-offers with one good and id the last one
\* is the one left in _open_offers_buy, and when the inbox holds an accept
\* and a cancel of one contract the accept is the earlier one and the
\* contract is in neither track afterwards.
C13_ArrivalOrderKept ==
    [][/\ \A a \in Agents :
             (lastOp' = Op("_post_messages", a, "") /\ raised'.exc = "none")
             => \A b \in Agents :
                   inbox'[b] = inbox[b] \o
                       [i \in DOMAIN SelectSeq(_out[a].list, LAMBDA e : e[1] = b) |->
                           SelectSeq(_out[a].list, LAMBDA e : e[1] = b)[i][2]]
       /\ \A a \in Agents :
             (lastOp' = Op("_do_message_clearing", a, "") /\ raised'.exc = "none")
             => \A k \in Ids :
                   /\ Naming(a, "!b", k) # {}
                      => _open_offers_buy'[a]["BRD"][k] =
                            Payload(a, Latest(Naming(a, "!b", k)))
                   /\ (Naming(a, "_ac", k) # {} /\ Naming(a, "!d", k) # {})
                      => /\ Latest(Naming(a, "_ac", k)) < Earliest(Naming(a, "!d", k))
                         /\ <<"BRD", k>> \notin Filed(_contracts_pay'[a])
                         /\ <<"BRD", k>> \notin Filed(_contracts_deliver'[a])
                   /\ (Naming(a, "_ac", k) # {} /\ Naming(a, "!d", k) = {})
                      => <<"BRD", k>> \in Filed(_contracts_pay'[a])
                                        \cup Filed(_contracts_deliver'[a])]_vars

\* two buy-offers of one id, the one of quantity 2 sent first, delivered
\* with an accept between them and cleared in one pass
C13_Witness ==
    /\ lastOp = Op("_do_message_clearing", Firm0, "")
    /\ raised.exc = "none"
    /\ sends = 3
    /\ inbox[HH0] = <<>> /\ _out[HH0].list = <<>>
    /\ Filed(_open_offers_buy[HH0]) = {}
    /\ 10 \in DOMAIN _open_offers_buy[Firm0]["BRD"]
    /\ _open_offers_buy[Firm0]["BRD"][10].quantity = 1
    /\ <<"BRD", 10>> \in Filed(_contracts_deliver[Firm0])

\* C17: when an offer in the agent's given_offers was made before the
\* current round, the audit raises the error of its first check, which
\* names the agent, whether or not the open-offer tables and the topic
\* queues are empty; when every offer in given_offers was made in the
\* current round, that check raises nothing.
C17_StaleOfferIsFatal ==
    \A a \in Agents :
        lastOp = Op("_check_for_lost_messages", a, "")
        => IF Stale(a)
           THEN RaisedFor(a) /\ raised.check = "given_offers"
           ELSE raised.check # "given_offers"

\* the audit of Firm0 in round 1: the offer it made in round 0 is the only
\* thing left, its tables and queues are empty
C17_Witness ==
    /\ lastOp = Op("_check_for_lost_messages", Firm0, "")
    /\ round = 1
    /\ given_offers[Firm0] # EmptyMap
    /\ Stale(Firm0)
    /\ ~Unretrieved(Firm0)
    /\ RaisedFor(Firm0)
    /\ raised.check = "given_offers"

----------------------------------------------------------------------------
(* Claims about the settlement of contracts, checked under SpecSettle. *)

\* C16: a '_dp' entry the clearing pass processes, for a contract held in
\* the track its payer names: when the payer of the entry is the agent
\* itself, the inventory of the good grows by quantity and the round is
\* appended to the delivered log of _contracts_pay[good][id]; otherwise the
\* inventory of money grows by quantity * price and the round is appended
\* to the paid log of _contracts_deliver[good][id].  The other track, the
\* other log, the other contracts and the other inventory entries stay as
\* they were.  For a contract that track does not hold the entry raises
\* and neither track changes.
C16_DeliveryOrPaymentBooked ==
    \A a \in Agents : \A i \in Reached(a) :
        Kind(a, i) = "_dp" /\ Payload(a, i).cls # "Message"
        => LET S == Trace(a)[i]
               T == Trace(a)[i + 1]
               m == Payload(a, i)
               mine == m.pay_group = a[1] /\ m.pay_id = a[2]
               credited == IF mine THEN m.good ELSE Money
               amount == IF mine THEN m.quantity ELSE m.quantity * m.price
               track == IF mine THEN S.pay ELSE S.deliver
           IN  /\ T.inv[credited] = S.inv[credited] + amount
               /\ \A g \in DOMAIN S.inv \ {credited} : T.inv[g] = S.inv[g]
               /\ IF m.id \in DOMAIN track[m.good]
                  THEN LET c == track[m.good][m.id]
                       IN  /\ T.err = "none"
                           /\ mine =>
                                 /\ T.pay = [S.pay EXCEPT ![m.good][m.id] =
                                       [c EXCEPT !.delivered = Append(c.delivered, round)]]
                                 /\ T.deliver = S.deliver
                           /\ ~mine =>
                                 /\ T.deliver = [S.deliver EXCEPT ![m.good][m.id] =
                                       [c EXCEPT !.paid = Append(c.paid, round)]]
                                 /\ T.pay = S.pay
                  ELSE T.err = "KeyError" /\ T.pay = S.pay /\ T.deliver = S.deliver
               /\ T.made = S.made /\ T.msgs = S.msgs
               /\ T.buy = S.buy /\ T.sell = S.sell

\* the contract Firm0 pays has been delivered in round 0 and in round 1
C16_Witness ==
    /\ lastOp = Op("_do_message_clearing", Firm0, "")
    /\ raised.exc = "none"
    /\ 10 \in DOMAIN _contracts_pay[Firm0]["BRD"]
    /\ _contracts_pay[Firm0]["BRD"][10].delivered = <<0, 1>>
    /\ _contracts_pay[Firm0]["BRD"][10].paid = <<>>
    /\ _inventory[Firm0]["BRD"] = 4
    /\ _inventory[Firm0][Money] = 0

----------------------------------------------------------------------------
(* Claims about messages kept over rounds, checked under SpecRounds. *)

\* the envelopes of topic t still on their way to a
OnTheWay(a, t) ==
    SeqToBag(Addressed(_out[Firm0].list, a, t))
    (+) SeqToBag(Addressed(_out[HH0].list, a, t))
    (+) SeqToBag(Arrived(inbox[a], t))

\* C20: as long as the audit does not end the run, messages that are not
\* retrieved are kept, over any number of rounds: a delivery pass appends
\* to what the inbox holds, a clearing pass appends the envelopes of topic
\* T of the inbox to the queue of T, a new round changes no mailbox, and
\* get_messages(T) returns every envelope of topic T sent to the agent
\* since the last retrieval of T, but the ones still on their way.
C20_UnretrievedMessagesAreKept ==
    [][/\ \A a \in Agents :
             (lastOp' = Op("_post_messages", a, "") /\ raised'.exc = "none")
             => \A b \in Agents :
                   /\ IsPrefix(inbox[b], inbox'[b])
                   /\ Len(inbox'[b]) =
                         Len(inbox[b]) + Len(SelectSeq(_out[a].list, LAMBDA e : e[1] = b))
       /\ \A a \in Agents :
             (lastOp' = Op("_do_message_clearing", a, "") /\ raised'.exc = "none")
             => \A t \in UserTopics :
                   Queued(a, t)' = Queued(a, t) \o Arrived(inbox[a], t)
       /\ lastOp'.op = "round"
          => _msgs' = _msgs /\ inbox' = inbox /\ _out' = _out
       /\ \A a \in Agents, t \in UserTopics :
             lastOp' = Op("get_messages", a, t)
             => SeqToBag(ret'.list) (+) OnTheWay(a, t) = sent[a][t]]_vars

\* in round 1 Firm0 retrieves, together, a message written in round 0 and
\* one written in round 1; the audit is off
C20_Witness ==
    /\ lastOp = Op("get_messages", Firm0, "m")
    /\ ~_check_every_round_for_lost_messages
    /\ round = 1
    /\ Len(ret.list) = 3
    /\ \E i, j \in DOMAIN ret.list :
          ret.list[i].content = "hello" /\ ret.list[j].content = "bye"

====
